---- MODULE Spec2Model ----
(***************************************************************************)
(* The laminar-devtools panel (LaminarDevtools, a LitElement): a scanner   *)
(* that collects the elements under document.body carrying the attribute   *)
(* data-source-path and links them into a forest of ComponentNode objects, *)
(* and a panel that keeps the forest (componentTree) and a selection       *)
(* (selectedNode), rescans on MutationObserver notifications and on manual *)
(* refresh, and outlines the element of the selected node.                 *)
(*                                                                         *)
(* The DOM is a finite universe of elements 1..NumElems that the page      *)
(* inserts below document.body (node 0), removes, and marks; an element    *)
(* that is in no child list is detached (with its subtree).                *)
(***************************************************************************)
EXTENDS Integers, Sequences, FiniteSets, TLC

\* ---------------------------------------------------------------- bounds
NumElems == 3        \* elements of the page (ScanSpec)
PanelElems == 2      \* elements the page touches while the panel runs (Spec)
MaxObservers == 2    \* times the panel is attached
MaxBatch == 1        \* mutation records in one batch

\* ------------------------------------------------------------ DOM universe
Body == 0
Elems == 1..NumElems
DomNodes == {Body} \cup Elems
Null == -1
NoAttr == "<none>"
Paths == {"", "A"}
TagNames == <<"DIV", "SPAN", "I", "B">>
HighlightOutline == "2px solid #007acc"
HighlightOffset == "2px"

VARIABLES
    kids,           \* DOM: the element children of each node, in order
    attr,           \* DOM: the data-source-path attribute of each element
    style,          \* DOM: the inline outline / outline-offset of each element
    attached,       \* the panel element is connected to the document
    observers,      \* number of MutationObservers registered on document.body
    pending,        \* the observers that hold undelivered mutation records
    batch,          \* mutation records queued since the last delivery
    componentTree,  \* @state componentTree: the objects of the last scan
    selectedNode,   \* @state selectedNode: a reference to a ComponentNode
    rescans         \* callbacks run by the delivery in progress or just made

vars == <<kids, attr, style, attached, observers, pending, batch,
          componentTree, selectedNode, rescans>>

\* ------------------------------------------------------------ DOM queries
Range(s) == {s[i] : i \in DOMAIN s}

\* Node.parentElement; the parent of document.body (html) is never a
\* ComponentNode element, so the walk ends with null above body.
parentElement(n) ==
    IF \E p \in DomNodes : n \in Range(kids[p])
    THEN CHOOSE p \in DomNodes : n \in Range(kids[p])
    ELSE Null

RECURSIVE Ancestors(_)
Ancestors(n) ==
    LET p == parentElement(n)
    IN IF p = Null THEN {} ELSE {p} \cup Ancestors(p)

InDocument(n) == n = Body \/ Body \in Ancestors(n)

hasAttribute(e) == attr[e] # NoAttr

getAttribute(e) == attr[e]

tagName(e) == TagNames[((e - 1) % Len(TagNames)) + 1]

toLowerCase(s) ==
    CASE s = "DIV" -> "div"
      [] s = "SPAN" -> "span"
      [] s = "I" -> "i"
      [] s = "B" -> "b"

\* ---------------------------------------------------------------- scanner
\* The NodeFilter of the TreeWalker.
AcceptNodeRejecting(element) ==
    IF hasAttribute(element) THEN "FILTER_ACCEPT" ELSE "FILTER_REJECT"

acceptNode(element) ==
    IF hasAttribute(element) THEN "FILTER_ACCEPT" ELSE "FILTER_SKIP"

\* TreeWalker.nextNode() repeated until null: the descendants of root in
\* document order; a skipped node is left out and its children are visited,
\* a rejected node is left out with its whole subtree.
RECURSIVE WalkList(_, _)
RECURSIVE Walk(_)
Walk(n) == WalkList(kids[n], 1)

WalkList(cs, i) ==
    IF i > Len(cs) THEN <<>>
    ELSE LET c == cs[i]
             f == acceptNode(c)
         IN (IF f = "FILTER_ACCEPT" THEN <<c>> ELSE <<>>)
            \o (IF f = "FILTER_REJECT" THEN <<>> ELSE Walk(c))
            \o WalkList(cs, i + 1)

findElementsWithSourcePath(root) == Walk(root)

\* nodes.find(node => node.element === parent): index of the first match, 0
\* when there is none.
NoNode == 0

FindIndex(nodes, parent) ==
    IF \E i \in DOMAIN nodes : nodes[i].element = parent
    THEN CHOOSE i \in DOMAIN nodes :
            /\ nodes[i].element = parent
            /\ \A j \in DOMAIN nodes : nodes[j].element = parent => i <= j
    ELSE NoNode

RECURSIVE WalkUp(_, _)
WalkUp(parent, nodes) ==
    IF parent = Null THEN NoNode
    ELSE IF FindIndex(nodes, parent) # NoNode THEN FindIndex(nodes, parent)
    ELSE WalkUp(parentElement(parent), nodes)

FindParentNodeDirect(element, nodes) ==
    LET parent == parentElement(element)
    IN IF parent = Null THEN NoNode ELSE FindIndex(nodes, parent)

findParentNode(element, nodes) == WalkUp(parentElement(element), nodes)

\* The first loop of buildTree: one fresh ComponentNode per element.
NewNode(element) ==
    [element |-> element,
     sourcePath |-> getAttribute(element),
     tagName |-> toLowerCase(tagName(element)),
     children |-> <<>>,
     depth |-> 0]

\* parent.children.push(node)
PushChildFront(children, i) == <<i>> \o children

PushChild(children, i) == Append(children, i)

\* node.depth = parent.depth + 1
ChildDepthOne(parentDepth) == 1

ChildDepth(parentDepth) == parentDepth + 1

\* The second loop of buildTree, from node i on: nodes are the objects made
\* by the first loop (children hold indices into nodes, the references).
RECURSIVE LinkLoop(_, _, _)
LinkLoop(nodes, rootNodes, i) ==
    IF i > Len(nodes) THEN [nodes |-> nodes, roots |-> rootNodes]
    ELSE LET parent == findParentNode(nodes[i].element, nodes)
         IN IF parent # NoNode
            THEN LET linked ==
                         [nodes EXCEPT
                            ![parent].children = PushChild(@, i)]
                     deep ==
                         [linked EXCEPT
                            ![i].depth = ChildDepth(linked[parent].depth)]
                 IN LinkLoop(deep, rootNodes, i + 1)
            ELSE LinkLoop(nodes, Append(rootNodes, i), i + 1)

buildTree(elements) ==
    LinkLoop([i \in 1..Len(elements) |-> NewNode(elements[i])], <<>>, 1)

\* ------------------------------------------------------- object identity
\* Every scan makes new ComponentNode objects (the object literal in the first
\* loop of buildTree).  A reference is the pair of gen, the allocation (scan)
\* that made the object, and i, its index in that scan's nodes; selectedNode
\* holds the reference and the element field of the object it keeps alive
\* (the field selectNode reads).  Only the objects of componentTree and the
\* object selectedNode points to are live; an allocation is distinct from
\* every live one, and the identifier of a scan whose objects are all garbage
\* may be used again.
Gens == 0..2

NoSelection == [gen |-> Null, i |-> NoNode, element |-> Null]

AllocateReusing(tree, sel) == tree.gen

Allocate(tree, sel) ==
    CHOOSE g \in Gens :
        /\ g \notin {tree.gen, sel.gen}
        /\ \A h \in Gens : h \notin {tree.gen, sel.gen} => g <= h

\* scanComponentTree: the value assigned to this.componentTree, the root
\* list and the objects of buildTree with the identity of their allocation.
scanComponentTree(tree, sel) ==
    [gen |-> Allocate(tree, sel)]
        @@ buildTree(findElementsWithSourcePath(Body))

Ref(tree, i) == [gen |-> tree.gen, i |-> i, element |-> tree.nodes[i].element]

\* ---------------------------------------------------------------- render
\* renderTreeNode: the line of the node followed by the lines of its
\* children; render() maps it over componentTree.
RECURSIVE renderTreeNode(_, _, _)
RECURSIVE RenderAll(_, _, _, _)
renderTreeNode(tree, sel, i) ==
    LET node == tree.nodes[i]
    IN <<[node |-> i,
          element |-> node.element,
          indent |-> 2 * node.depth,
          isSelected |-> (sel = Ref(tree, i)),
          tagName |-> node.tagName,
          sourcePath |-> node.sourcePath]>>
       \o RenderAll(tree, sel, node.children, 1)

RenderAll(tree, sel, list, k) ==
    IF k > Len(list) THEN <<>>
    ELSE renderTreeNode(tree, sel, list[k]) \o RenderAll(tree, sel, list, k + 1)

render(tree, sel) == RenderAll(tree, sel, tree.roots, 1)

\* ------------------------------------------------------ mutation observer
\* observer.observe(document.body, {childList, subtree, attributes,
\* attributeFilter}): the records that are queued for an observer.
attributeFilter == {"data-source-path"}

ObservedUnfiltered(record) ==
    \/ record.type = "childList"
    \/ record.type = "attributes"

ObservedAttributesOnly(record) ==
    /\ record.type = "attributes"
    /\ record.attributeName \in attributeFilter

Observed(record) ==
    \/ record.type = "childList"
    \/ /\ record.type = "attributes"
       /\ record.attributeName \in attributeFilter

\* The observers that get a record for a mutation at target (subtree: true
\* on document.body: the target must be in the document).
Notified(target, record) ==
    IF InDocument(target) /\ Observed(record) THEN 1..observers ELSE {}

ChildList == [type |-> "childList", attributeName |-> ""]
Attribute(name) == [type |-> "attributes", attributeName |-> name]

\* The delivery of a batch runs the callbacks of the observers that hold
\* records one after the other; nothing else runs between them.
Delivering == rescans > 0 /\ pending # {}

\* A batch holds at most MaxBatch records before it is delivered.
Queue(obs) ==
    /\ ~Delivering
    /\ obs # {} => batch < MaxBatch
    /\ pending' = pending \cup obs
    /\ batch' = IF obs # {} THEN batch + 1 ELSE batch

\* ------------------------------------------------------------------ Init
Init ==
    /\ kids = [n \in DomNodes |-> <<>>]
    /\ attr = [e \in Elems |-> NoAttr]
    /\ style = [e \in Elems |-> [outline |-> "", outlineOffset |-> ""]]
    /\ attached = FALSE
    /\ observers = 0
    /\ pending = {}
    /\ batch = 0
    /\ componentTree = [gen |-> 0, nodes |-> <<>>, roots |-> <<>>]
    /\ selectedNode = NoSelection
    /\ rescans = 0

\* ----------------------------------------------------- the page (external)
RECURSIVE Subtree(_)
Subtree(n) == {n} \cup UNION {Subtree(c) : c \in Range(kids[n])}

InsertAt(s, k, e) == SubSeq(s, 1, k - 1) \o <<e>> \o SubSeq(s, k, Len(s))

RemoveFrom(s, e) == SelectSeq(s, LAMBDA x : x # e)

\* parent.insertBefore(e, ...) / appendChild(e) of a detached element.
InsertElement(e, p, k) ==
    /\ parentElement(e) = Null
    /\ p \notin Subtree(e)
    /\ k \in 1..(Len(kids[p]) + 1)
    /\ Queue(Notified(p, ChildList))
    /\ kids' = [kids EXCEPT ![p] = InsertAt(@, k, e)]
    /\ UNCHANGED <<attr, style, attached, observers, componentTree,
                   selectedNode>>
    /\ rescans' = 0

\* e.remove()
RemoveElement(e) ==
    /\ parentElement(e) # Null
    /\ Queue(Notified(parentElement(e), ChildList))
    /\ kids' = [kids EXCEPT ![parentElement(e)] = RemoveFrom(@, e)]
    /\ UNCHANGED <<attr, style, attached, observers, componentTree,
                   selectedNode>>
    /\ rescans' = 0

\* e.setAttribute('data-source-path', v)
SetAttribute(e, v) ==
    /\ attr[e] # v
    /\ Queue(Notified(e, Attribute("data-source-path")))
    /\ attr' = [attr EXCEPT ![e] = v]
    /\ UNCHANGED <<kids, style, attached, observers, componentTree,
                   selectedNode>>
    /\ rescans' = 0

\* e.removeAttribute('data-source-path')
RemoveAttribute(e) ==
    /\ attr[e] # NoAttr
    /\ Queue(Notified(e, Attribute("data-source-path")))
    /\ attr' = [attr EXCEPT ![e] = NoAttr]
    /\ UNCHANGED <<kids, style, attached, observers, componentTree,
                   selectedNode>>
    /\ rescans' = 0

\* ------------------------------------------------------------- the panel
\* The panel element is inserted below document.body: the observers that
\* exist get a childList record, then connectedCallback runs: a scan, and a
\* new MutationObserver on document.body.
connectedCallback ==
    /\ ~attached
    /\ observers < MaxObservers
    /\ Queue(Notified(Body, ChildList))
    /\ attached' = TRUE
    /\ componentTree' = scanComponentTree(componentTree, selectedNode)
    /\ observers' = observers + 1
    /\ rescans' = 0
    /\ UNCHANGED <<kids, attr, style, selectedNode>>

\* The panel element is removed from the document.  The class defines no
\* disconnectedCallback: the observers stay registered.
Disconnect ==
    /\ attached
    /\ Queue(Notified(Body, ChildList))
    /\ attached' = FALSE
    /\ UNCHANGED <<kids, attr, style, observers, componentTree,
                   selectedNode>>
    /\ rescans' = 0

\* The callback of observer o, run by the microtask that delivers the queued
\* records to the observers in the order of their creation.
observerCallback(o) ==
    /\ o \in pending
    /\ \A p \in pending : o <= p
    /\ pending' = pending \ {o}
    /\ batch' = 0
    /\ rescans' = rescans + 1
    /\ componentTree' = scanComponentTree(componentTree, selectedNode)
    /\ UNCHANGED <<kids, attr, style, attached, observers, selectedNode>>

\* One step of the delivery: the next callback.
Deliver == \E o \in 1..MaxObservers : observerCallback(o)

\* A user event reaches the panel only when it is in the document, and after
\* the microtasks of the previous task (delivery, re-render) have run.
UserEvent == attached /\ pending = {}

\* Click on the Refresh button.
Refresh ==
    /\ UserEvent
    /\ componentTree' = scanComponentTree(componentTree, selectedNode)
    /\ UNCHANGED <<kids, attr, style, attached, observers, pending, batch,
                   selectedNode>>
    /\ rescans' = 0

\* clearHighlights: document.querySelectorAll('[style*="outline"]') and the
\* two assignments of '' for each match.
Matches(st, e) ==
    /\ InDocument(e)
    /\ (st[e].outline # "" \/ st[e].outlineOffset # "")

clearHighlights(st) ==
    [e \in Elems |->
        IF Matches(st, e) THEN [outline |-> "", outlineOffset |-> ""]
        ELSE st[e]]

\* The elements whose style attribute selectNode(node) writes.
StyleWrites(st, element) == {e \in Elems : Matches(st, e)} \cup {element}

\* Click on the line of node i of the rendered tree.
selectNode(i) ==
    /\ UserEvent
    /\ \E k \in DOMAIN render(componentTree, selectedNode) :
           render(componentTree, selectedNode)[k].node = i
    /\ selectedNode' = Ref(componentTree, i)
    /\ style' = [clearHighlights(style) EXCEPT
                   ![componentTree.nodes[i].element] =
                       [outline |-> HighlightOutline,
                        outlineOffset |-> HighlightOffset]]
    /\ Queue(UNION {Notified(e, Attribute("style")) :
                      e \in StyleWrites(style, componentTree.nodes[i].element)})
    /\ rescans' = 0
    /\ UNCHANGED <<kids, attr, attached, observers, componentTree>>

\* The page changes the elements 1..n.
PageStep(n) ==
    \/ \E e \in 1..n, p \in 0..n, k \in 1..(n + 1) : InsertElement(e, p, k)
    \/ \E e \in 1..n : RemoveElement(e)
    \/ \E e \in 1..n, v \in Paths : SetAttribute(e, v)
    \/ \E e \in 1..n : RemoveAttribute(e)

\* The panel on a page that keeps changing PanelElems elements.
Next ==
    \/ PageStep(PanelElems)
    \/ connectedCallback
    \/ Disconnect
    \/ Deliver
    \/ Refresh
    \/ \E i \in 1..PanelElems : selectNode(i)

Spec == Init /\ [][Next]_vars

\* The scanner: the page builds any DOM of NumElems elements, then the panel
\* is attached (the scan of connectedCallback) and refreshed.
NextScan ==
    \/ observers = 0 /\ PageStep(NumElems)
    \/ connectedCallback
    \/ Refresh

ScanSpec == Init /\ [][NextScan]_vars

\* The rescans: the page and the panel without clicks on tree lines (they
\* change neither the child lists, nor data-source-path, nor componentTree).
\* Delivery is a microtask: once records are queued the callbacks run.
NextRescan ==
    \/ PageStep(PanelElems)
    \/ connectedCallback
    \/ Disconnect
    \/ Deliver
    \/ Refresh

RescanSpec == Init /\ [][NextRescan]_vars /\ WF_vars(Deliver)

\* ===================================================== properties: scanner
\* The elements under document.body that carry data-source-path.
Marked == {e \in Elems : InDocument(e) /\ attr[e] # NoAttr}

MarkedAncestors(e) == Ancestors(e) \cap Marked

\* The panel has scanned and no mutation record is waiting.
Scanned == observers > 0 /\ pending = {}

Count(s, x) == Cardinality({k \in DOMAIN s : s[k] = x})

ElementOf(i) == componentTree.nodes[i].element

ChildrenOf(i) == componentTree.nodes[i].children

\* The nodes reachable from the roots through children links.
RECURSIVE ReachFrom(_)
ReachFrom(S) ==
    LET T == S \cup UNION {Range(ChildrenOf(i)) : i \in S}
    IN IF T = S THEN S ELSE ReachFrom(T)

Reachable == ReachFrom(Range(componentTree.roots))

\* How often node i is listed: as a root and in children lists.
Listed(i) ==
    LET inChildren[k \in 0..Len(componentTree.nodes)] ==
            IF k = 0 THEN 0
            ELSE inChildren[k - 1] + Count(ChildrenOf(k), i)
    IN Count(componentTree.roots, i) + inChildren[Len(componentTree.nodes)]

\* C1: the forest of a scan holds exactly one ComponentNode per marked
\* element: every marked element is reachable from a root, no node is listed
\* twice (as two roots, in two children lists, or as root and child), and no
\* unmarked element appears.
C1_OneNodePerMarkedElement ==
    Scanned =>
        /\ \A e \in Marked :
               Cardinality({i \in Reachable : ElementOf(i) = e}) = 1
        /\ \A i \in Reachable : Listed(i) = 1
        /\ \A i \in Reachable : ElementOf(i) \in Marked

C1_Witness ==
    /\ Scanned
    /\ Cardinality(Marked) >= 2
    /\ \E e \in Elems : InDocument(e) /\ e \notin Marked
    /\ Cardinality(Reachable) = Cardinality(Marked)

\* m is the nearest marked ancestor of e.
NearestMarked(e, m) ==
    /\ m \in MarkedAncestors(e)
    /\ \A x \in MarkedAncestors(e) : x = m \/ x \in Ancestors(m)

\* C2: the tree parent of every node is the node of its nearest marked DOM
\* ancestor, unmarked elements between them skipped: every child of n is a
\* marked descendant of n.element with no marked element between them, every
\* marked element with a marked ancestor is a child of the node of the
\* nearest one, and the roots are exactly the marked elements without a
\* marked ancestor.
C2_ParentIsNearestMarkedAncestor ==
    Scanned =>
        /\ \A i \in Reachable : \A c \in Range(ChildrenOf(i)) :
               /\ ElementOf(c) \in Marked
               /\ NearestMarked(ElementOf(c), ElementOf(i))
        /\ \A e \in Marked : \A m \in Marked :
               NearestMarked(e, m) =>
                   \E i \in Reachable : \E c \in Range(ChildrenOf(i)) :
                       ElementOf(i) = m /\ ElementOf(c) = e
        /\ {ElementOf(r) : r \in Range(componentTree.roots)}
               = {e \in Marked : MarkedAncestors(e) = {}}

C2_Witness ==
    /\ Scanned
    /\ \E i \in Reachable : \E c \in Range(ChildrenOf(i)) :
           /\ parentElement(ElementOf(c)) # ElementOf(i)
           /\ parentElement(ElementOf(c)) \notin Marked
    /\ Len(componentTree.roots) = 1

\* C3: the depth of every node is the number of marked elements that are
\* strict ancestors of its element (0 for roots).
C3_DepthCountsMarkedAncestors ==
    Scanned =>
        \A i \in Reachable :
            componentTree.nodes[i].depth
                = Cardinality(MarkedAncestors(ElementOf(i)))

C3_Witness ==
    /\ Scanned
    /\ \E i \in Reachable : componentTree.nodes[i].depth = 2
    /\ \E i \in Reachable : componentTree.nodes[i].depth = 0

\* Document order, from the positions in the child lists: the path of child
\* indices from document.body; an ancestor precedes its descendants.
RECURSIVE PathOf(_)
PathOf(n) ==
    IF n = Body THEN <<>>
    ELSE LET p == parentElement(n)
         IN PathOf(p) \o <<CHOOSE k \in DOMAIN kids[p] : kids[p][k] = n>>

Precedes(a, b) ==
    LET pa == PathOf(a)
        pb == PathOf(b)
    IN \E k \in 0..Len(pa) :
          /\ k <= Len(pb)
          /\ \A j \in 1..k : pa[j] = pb[j]
          /\ \/ k = Len(pa) /\ k < Len(pb)
             \/ k < Len(pa) /\ k < Len(pb) /\ pa[k + 1] < pb[k + 1]

InDocumentOrder(els) ==
    \A j \in DOMAIN els : \A k \in DOMAIN els :
        j < k => Precedes(els[j], els[k])

ElementsOf(list) == [k \in DOMAIN list |-> ElementOf(list[k])]

RenderedElements ==
    LET lines == render(componentTree, selectedNode)
    IN [k \in DOMAIN lines |-> lines[k].element]

\* C9: the root list and every children list are in document order, and the
\* lines of the rendered tree list the marked elements in document order,
\* each exactly once.
C9_RenderedInDocumentOrder ==
    Scanned =>
        /\ InDocumentOrder(ElementsOf(componentTree.roots))
        /\ \A i \in Reachable : InDocumentOrder(ElementsOf(ChildrenOf(i)))
        /\ InDocumentOrder(RenderedElements)
        /\ Range(RenderedElements) = Marked
        /\ Len(RenderedElements) = Cardinality(Marked)

C9_Witness ==
    /\ Scanned
    /\ \E i \in Reachable : Len(ChildrenOf(i)) = 2
    /\ Len(RenderedElements) = 3
    /\ \E j \in 1..2 : RenderedElements[j] > RenderedElements[j + 1]

\* ======================================================= properties: panel
\* componentTree is the forest a scan of the DOM as it is now produces.
UpToDate ==
    LET t == buildTree(findElementsWithSourcePath(Body))
    IN componentTree.nodes = t.nodes /\ componentTree.roots = t.roots

\* C4: once the panel has been attached, a DOM change under document.body
\* is eventually followed by a rescan, and whenever no mutation record is
\* waiting componentTree equals the forest of a scan of the current DOM.
C4_TreeFollowsDom ==
    /\ [](Scanned => UpToDate)
    /\ (pending # {}) ~> (pending = {} /\ rescans > 0)

C4_Witness ==
    /\ Scanned
    /\ rescans > 0
    /\ \E i \in Reachable : Len(ChildrenOf(i)) = 1
    /\ \E i \in Reachable : componentTree.nodes[i].sourcePath = ""

\* The elements in the document that carry an inline outline.
Highlighted ==
    {e \in Elems : InDocument(e) /\ style[e].outline # ""}

\* C5: at most one element carries the highlight, and it is the element of
\* the selected node, with outline and outline-offset as select sets them.
C5_OneHighlight ==
    /\ Cardinality(Highlighted) <= 1
    /\ \A e \in Highlighted :
           /\ selectedNode # NoSelection
           /\ e = selectedNode.element
           /\ style[e] = [outline |-> HighlightOutline,
                          outlineOffset |-> HighlightOffset]

\* The lines of the rendered tree that are drawn as selected.
SelectedLines(tree, sel) ==
    {k \in DOMAIN render(tree, sel) : render(tree, sel)[k].isSelected}

ScanStep == connectedCallback \/ Deliver \/ Refresh

\* C6: after a node has been selected, a rescan (by notification, by manual
\* refresh, or by attachment) leaves no node of the new componentTree marked
\* selected: none is the object selectedNode points to.
C6_RescanUnselects ==
    [][(selectedNode # NoSelection /\ ScanStep) =>
          /\ SelectedLines(componentTree', selectedNode') = {}
          /\ \A i \in DOMAIN componentTree'.nodes :
                 Ref(componentTree', i) # selectedNode']_vars

C6_Witness ==
    /\ selectedNode # NoSelection
    /\ rescans > 0
    /\ SelectedLines(componentTree, selectedNode) = {}
    /\ \E i \in Reachable :
           /\ i = selectedNode.i
           /\ ElementOf(i) = selectedNode.element

\* C7: the delivery of a batch of DOM changes runs scanComponentTree exactly
\* once.
C7_OneRescanPerBatch == ~Delivering => rescans \in {0, 1}

\* C8: selectedNode is empty or points to a node of the current forest.
C8_SelectionInTree ==
    \/ selectedNode = NoSelection
    \/ /\ selectedNode.gen = componentTree.gen
       /\ selectedNode.i \in Reachable

\* C10: select(n) leaves componentTree as it is and queues no mutation
\* record (so no rescan follows); right after it n is a node of
\* componentTree and the only one rendered as selected.
C10_SelectKeepsTree ==
    [][\A i \in 1..PanelElems :
          selectNode(i) =>
              /\ componentTree' = componentTree
              /\ pending' = {}
              /\ selectedNode'.gen = componentTree'.gen
              /\ selectedNode'.i = i
              /\ \A k \in DOMAIN render(componentTree', selectedNode') :
                     render(componentTree', selectedNode')[k].isSelected
                         <=> render(componentTree', selectedNode')[k].node = i
              /\ Cardinality(SelectedLines(componentTree', selectedNode')) = 1
      ]_vars

C10_Witness ==
    /\ Cardinality(SelectedLines(componentTree, selectedNode)) = 1
    /\ Len(render(componentTree, selectedNode)) = 2
    /\ style[selectedNode.element].outline = HighlightOutline
    /\ \E e \in Elems :
           e # selectedNode.element /\ InDocument(e)
               /\ style[e].outline = ""
    /\ pending = {}

====
